---- MODULE Spec2Model ----
(***************************************************************************)
(* Three Home Assistant entity adapters:                                   *)
(*   - MqttLock               (homeassistant/components/mqtt/lock.py)      *)
(*   - PlugwiseSwitchEntity   (homeassistant/components/plugwise/switch.py)*)
(*   - PlugwiseClimateEntity  (homeassistant/components/plugwise/climate.py)*)
(* The adapters share no state, so each has its own specification          *)
(* (SpecLock, SpecSwitch, SpecClimate) over the variables below; Spec is   *)
(* their interleaving.                                                     *)
(***************************************************************************)
EXTENDS Integers, Sequences, FiniteSets, TLC

\* Python's None; also stands for a key that is absent from a dict, which is
\* what dict.get() returns for it.
None == "None"

(***************************************************************************)
(* Bounds of the model.                                                    *)
(***************************************************************************)
\* handler invocations (commands and inbound messages) of the lock
MaxLockCalls == 3
\* turn_on / turn_off commands given to the switch entities
MaxSwitchCommands == 3

VARIABLES
    \* ---- MqttLock ----
    lock_pc,            \* lifecycle: "new" -> "configured" -> "prepared" -> "subscribed"
    _config,            \* self._config
    _state,             \* self._state
    _optimistic,        \* self._optimistic
    _sub_state,         \* self._sub_state: the topic of the prepared subscription
    sub_prepared,       \* did _prepare_subscribe_topics call async_prepare_subscribe_topics
    mqtt_publish_calls, \* number of self.async_publish calls made
    mqtt_last_publish,  \* <<topic, payload>> of the last async_publish call, or <<>>
    ha_state_writes,    \* number of self.async_write_ha_state calls made
    ha_written_state,   \* the state the last async_write_ha_state wrote, or None
    lock_calls,         \* number of handler invocations so far
    lock_last_call,     \* [op, outcome] of the last handler invocation
    lock_last_ok,       \* the last command that completed without raising
    msg_log,            \* raw payloads received on the state topic, oldest first
    \* ---- PlugwiseSwitchEntity ----
    switch_devices,      \* coordinator.data.devices, for the devices with a relay
    api_switch_calls,    \* number of api.set_switch_state calls made
    api_last_switch_call,\* arguments of the last api.set_switch_state call, or <<>>
    api_switch_raised,   \* did the last api.set_switch_state call raise
    switch_commands,     \* number of turn_on / turn_off commands given
    switch_last_command, \* [entity, op, outcome] of the last command
    switch_failures,     \* number of commands that raised
    \* ---- PlugwiseClimateEntity ----
    coordinator_data,    \* self.coordinator.data: [gateway, devices]
    climate,             \* the entity's _attr_* fields
    climate_updated,     \* has _handle_coordinator_update run yet
    climate_last_command \* [op, temperature, hvac_mode, outcome, calls] of the command
                         \* that ran last, if one ran since the last update

lockVars == <<lock_pc, _config, _state, _optimistic, _sub_state, sub_prepared,
              mqtt_publish_calls, mqtt_last_publish, ha_state_writes,
              ha_written_state, lock_calls, lock_last_call, lock_last_ok, msg_log>>

switchVars == <<switch_devices, api_switch_calls, api_last_switch_call,
                api_switch_raised, switch_commands, switch_last_command,
                switch_failures>>

climateVars == <<coordinator_data, climate, climate_updated, climate_last_command>>

vars == <<lockVars, switchVars, climateVars>>

(***************************************************************************)
(* MqttLock                                                                *)
(***************************************************************************)
DEFAULT_PAYLOAD_LOCK == "LOCK"
DEFAULT_PAYLOAD_UNLOCK == "UNLOCK"
DEFAULT_STATE_LOCKED == "LOCKED"
DEFAULT_STATE_UNLOCKED == "UNLOCKED"

\* Configurations PLATFORM_SCHEMA accepts.  state_topic, payload_open and
\* value_template are Optional without a default (None: the key is absent);
\* the other keys take their defaults.
LockConfigs ==
    [ command_topic  : {"lock/set"},
      state_topic    : {None, "lock/state"},
      optimistic     : BOOLEAN,
      payload_lock   : {DEFAULT_PAYLOAD_LOCK},
      payload_unlock : {DEFAULT_PAYLOAD_UNLOCK},
      payload_open   : {None, "OPEN"},
      state_locked   : {DEFAULT_STATE_LOCKED},
      state_unlocked : {DEFAULT_STATE_UNLOCKED},
      value_template : {None, "tpl"} ]

\* Payloads a device may send on the state topic.
RawPayloads == {"LOCKED", "UNLOCKED", "ON", "OFF"}

\* self._value_template(msg.payload): without a value_template the payload is
\* passed through; the template of the model is
\*   {{ {'ON': 'LOCKED', 'OFF': 'UNLOCKED'}.get(value, 'unknown') }}
ValueTemplate(template, raw) ==
    IF template = None THEN raw
    ELSE IF raw = "ON" THEN "LOCKED"
    ELSE IF raw = "OFF" THEN "UNLOCKED"
    ELSE "unknown"

LockCommands == {"async_lock", "async_unlock", "async_open"}

NoCall == [op |-> "none", outcome |-> "none"]

LockInit ==
    /\ lock_pc = "new"
    /\ _config = None
    /\ _state = FALSE
    /\ _optimistic = FALSE
    /\ _sub_state = None
    /\ sub_prepared = FALSE
    /\ mqtt_publish_calls = 0
    /\ mqtt_last_publish = <<>>
    /\ ha_state_writes = 0
    /\ ha_written_state = None
    /\ lock_calls = 0
    /\ lock_last_call = NoCall
    /\ lock_last_ok = "none"
    /\ msg_log = <<>>

\* MqttLock._setup_from_config
SetupFromConfig(config) == config.optimistic

\* MqttLock.__init__: the two fields are initialised, then MqttEntity.__init__
\* stores the config and calls _setup_from_config(config).
Construct(config) ==
    /\ lock_pc = "new"
    /\ lock_pc' = "configured"
    /\ _config' = config
    /\ _state' = FALSE
    /\ _optimistic' = SetupFromConfig(config)
    /\ UNCHANGED <<_sub_state, sub_prepared, mqtt_publish_calls, mqtt_last_publish,
                   ha_state_writes, ha_written_state, lock_calls, lock_last_call,
                   lock_last_ok, msg_log>>

\* Faulty variant of PrepareSubscribeTopics: the lock is not forced into optimistic
\* mode when there is no state topic.
PrepareSubscribeTopicsNotForced ==
    /\ lock_pc = "configured"
    /\ lock_pc' = "prepared"
    /\ IF _config.state_topic = None
       THEN /\ sub_prepared' = FALSE
            /\ UNCHANGED <<_sub_state, _optimistic>>
       ELSE /\ _sub_state' = _config.state_topic
            /\ sub_prepared' = TRUE
            /\ UNCHANGED _optimistic
    /\ UNCHANGED <<_config, _state, mqtt_publish_calls, mqtt_last_publish,
                   ha_state_writes, ha_written_state, lock_calls, lock_last_call,
                   lock_last_ok, msg_log>>

\* MqttLock._prepare_subscribe_topics: without a state topic the lock is forced
\* into optimistic mode and nothing is handed to the subscription layer; with
\* one, the state_topic subscription (with message_received as its callback)
\* is prepared.
PrepareSubscribeTopics ==
    /\ lock_pc = "configured"
    /\ lock_pc' = "prepared"
    /\ IF _config.state_topic = None
       THEN /\ _optimistic' = TRUE
            /\ sub_prepared' = FALSE
            /\ UNCHANGED _sub_state
       ELSE /\ _sub_state' = _config.state_topic
            /\ sub_prepared' = TRUE
            /\ UNCHANGED _optimistic
    /\ UNCHANGED <<_config, _state, mqtt_publish_calls, mqtt_last_publish,
                   ha_state_writes, ha_written_state, lock_calls, lock_last_call,
                   lock_last_ok, msg_log>>

\* MqttLock._subscribe_topics: the prepared subscriptions become active; from
\* here on the entity receives commands and, if subscribed, state messages.
SubscribeTopics ==
    /\ lock_pc = "prepared"
    /\ lock_pc' = "subscribed"
    /\ UNCHANGED <<_config, _state, _optimistic, _sub_state, sub_prepared,
                   mqtt_publish_calls, mqtt_last_publish, ha_state_writes,
                   ha_written_state, lock_calls, lock_last_call, lock_last_ok,
                   msg_log>>

\* MqttLock.is_locked
is_locked == _state

\* async_write_ha_state records the entity's state, which LockEntity derives
\* from is_locked.
WrittenState(locked) == IF locked THEN "locked" ELSE "unlocked"

\* MqttLock.assumed_state
assumed_state == _optimistic

\* MqttLock.supported_features: SUPPORT_OPEN iff payload_open is configured
SUPPORT_OPEN == 1
supported_features == IF _config.payload_open # None THEN SUPPORT_OPEN ELSE 0

\* Faulty variant of PublishCommand: the state is assumed and written before the
\* publish is awaited, so a failing publish leaves it changed.
PublishCommandAssumesFirst(op, payload, assumed, published) ==
    /\ lock_pc = "subscribed"
    /\ lock_calls < MaxLockCalls
    /\ lock_calls' = lock_calls + 1
    /\ IF payload = None
       THEN /\ lock_last_call' = [op |-> op, outcome |-> "KeyError"]
            /\ UNCHANGED <<mqtt_publish_calls, mqtt_last_publish, _state,
                           ha_state_writes, ha_written_state, lock_last_ok>>
       ELSE /\ mqtt_publish_calls' = mqtt_publish_calls + 1
            /\ mqtt_last_publish' = <<_config.command_topic, payload>>
            /\ lock_last_call' =
                  [op |-> op,
                   outcome |-> IF published THEN "ok" ELSE "publish_failed"]
            /\ lock_last_ok' = IF published THEN op ELSE lock_last_ok
            /\ IF _optimistic
               THEN /\ _state' = assumed
                    /\ ha_state_writes' = ha_state_writes + 1
                    /\ ha_written_state' = WrittenState(assumed)
               ELSE UNCHANGED <<_state, ha_state_writes, ha_written_state>>
    /\ UNCHANGED <<lock_pc, _config, _optimistic, _sub_state, sub_prepared, msg_log>>

\* Faulty variant of PublishCommand: the state is assumed and written after
\* every publish, whether the lock is in optimistic mode or not.
PublishCommandAlwaysAssumes(op, payload, assumed, published) ==
    /\ lock_pc = "subscribed"
    /\ lock_calls < MaxLockCalls
    /\ lock_calls' = lock_calls + 1
    /\ IF payload = None
       THEN /\ lock_last_call' = [op |-> op, outcome |-> "KeyError"]
            /\ UNCHANGED <<mqtt_publish_calls, mqtt_last_publish, _state,
                           ha_state_writes, ha_written_state, lock_last_ok>>
       ELSE /\ mqtt_publish_calls' = mqtt_publish_calls + 1
            /\ mqtt_last_publish' = <<_config.command_topic, payload>>
            /\ lock_last_call' =
                  [op |-> op,
                   outcome |-> IF published THEN "ok" ELSE "publish_failed"]
            /\ lock_last_ok' = IF published THEN op ELSE lock_last_ok
            /\ IF published
               THEN /\ _state' = assumed
                    /\ ha_state_writes' = ha_state_writes + 1
                    /\ ha_written_state' = WrittenState(assumed)
               ELSE UNCHANGED <<_state, ha_state_writes, ha_written_state>>
    /\ UNCHANGED <<lock_pc, _config, _optimistic, _sub_state, sub_prepared, msg_log>>

\* The body shared by async_lock, async_unlock and async_open: look the payload
\* up in the config (self._config[key] raises KeyError for an absent key),
\* await async_publish (published: it returned; otherwise it raised), and only
\* then, in optimistic mode, assume the new state and write it.
PublishCommand(op, payload, assumed, published) ==
    /\ lock_pc = "subscribed"
    /\ lock_calls < MaxLockCalls
    /\ lock_calls' = lock_calls + 1
    /\ IF payload = None
       THEN /\ lock_last_call' = [op |-> op, outcome |-> "KeyError"]
            /\ UNCHANGED <<mqtt_publish_calls, mqtt_last_publish, _state,
                           ha_state_writes, ha_written_state, lock_last_ok>>
       ELSE /\ mqtt_publish_calls' = mqtt_publish_calls + 1
            /\ mqtt_last_publish' = <<_config.command_topic, payload>>
            /\ lock_last_call' =
                  [op |-> op,
                   outcome |-> IF published THEN "ok" ELSE "publish_failed"]
            /\ lock_last_ok' = IF published THEN op ELSE lock_last_ok
            /\ IF published /\ _optimistic
               THEN /\ _state' = assumed
                    /\ ha_state_writes' = ha_state_writes + 1
                    /\ ha_written_state' = WrittenState(assumed)
               ELSE UNCHANGED <<_state, ha_state_writes, ha_written_state>>
    /\ UNCHANGED <<lock_pc, _config, _optimistic, _sub_state, sub_prepared, msg_log>>

\* MqttLock.async_lock
AsyncLock(published) ==
    PublishCommand("async_lock", _config.payload_lock, TRUE, published)

\* MqttLock.async_unlock
AsyncUnlock(published) ==
    PublishCommand("async_unlock", _config.payload_unlock, FALSE, published)

\* Faulty variant of AsyncOpen: the optimistic state after opening is "locked".
AsyncOpenAssumesLocked(published) ==
    PublishCommand("async_open", _config.payload_open, TRUE, published)

\* MqttLock.async_open
AsyncOpen(published) ==
    PublishCommand("async_open", _config.payload_open, FALSE, published)

\* Faulty variant of MessageState: an unrecognised payload counts as "unlocked".
MessageStateElseUnlocked(payload, config, state) ==
    IF payload = config.state_locked THEN TRUE ELSE FALSE

\* message_received, lines 134-137: the new self._state for a templated payload
MessageState(payload, config, state) ==
    IF payload = config.state_locked THEN TRUE
    ELSE IF payload = config.state_unlocked THEN FALSE
    ELSE state

\* message_received(msg), the callback of the state_topic subscription
MessageReceived(raw) ==
    /\ lock_pc = "subscribed"
    /\ _sub_state # None
    /\ lock_calls < MaxLockCalls
    /\ lock_calls' = lock_calls + 1
    /\ LET payload == ValueTemplate(_config.value_template, raw)
       IN  /\ _state' = MessageState(payload, _config, _state)
           /\ ha_written_state' = WrittenState(_state')
    /\ ha_state_writes' = ha_state_writes + 1
    /\ msg_log' = Append(msg_log, raw)
    /\ lock_last_call' = [op |-> "message_received", outcome |-> "ok"]
    /\ UNCHANGED <<lock_pc, _config, _optimistic, _sub_state, sub_prepared,
                   mqtt_publish_calls, mqtt_last_publish, lock_last_ok>>

LockStep(A) == A /\ UNCHANGED <<switchVars, climateVars>>

LockNext ==
    \/ \E config \in LockConfigs : LockStep(Construct(config))
    \/ LockStep(PrepareSubscribeTopics)
    \/ LockStep(SubscribeTopics)
    \/ \E published \in BOOLEAN : LockStep(AsyncLock(published))
    \/ \E published \in BOOLEAN : LockStep(AsyncUnlock(published))
    \/ \E published \in BOOLEAN : LockStep(AsyncOpen(published))
    \/ \E raw \in RawPayloads : LockStep(MessageReceived(raw))

(***************************************************************************)
(* PlugwiseSwitchEntity                                                    *)
(***************************************************************************)
\* SWITCHES: the one entity description, key "relay"
SWITCHES == {"relay"}

\* Devices of coordinator.data.devices that have a "relay" switch; async_setup_entry
\* creates one PlugwiseSwitchEntity per such device, with _dev_id the device id.
SwitchDeviceIds == {"dev1", "dev2"}

\* device.get("members"): absent on a plug, the member ids on a group switch
SwitchMembers == {None, "plug1,plug2"}

SwitchDeviceData == [SwitchDeviceIds -> [members : SwitchMembers]]

NoCommand == [entity |-> "none", op |-> "none", outcome |-> "none"]

SwitchInit ==
    /\ switch_devices = [d \in SwitchDeviceIds |-> [members |-> None]]
    /\ api_switch_calls = 0
    /\ api_last_switch_call = <<>>
    /\ api_switch_raised = FALSE
    /\ switch_commands = 0
    /\ switch_last_command = NoCommand
    /\ switch_failures = 0

\* The coordinator polled the gateway and replaced its data.
SwitchCoordinatorUpdate(data) ==
    /\ switch_devices' = data
    /\ switch_devices' # switch_devices
    /\ UNCHANGED <<api_switch_calls, api_last_switch_call, api_switch_raised,
                   switch_commands, switch_last_command, switch_failures>>

\* The plugwise_command decorator: a PlugwiseException of the wrapped method
\* is raised to the caller as a HomeAssistantError.
PlugwiseCommand(raised) == IF raised THEN "HomeAssistantError" ELSE "ok"

\* The body shared by async_turn_on and async_turn_off: one awaited
\* api.set_switch_state(self._dev_id, members, key, state) call, which returns
\* or raises PlugwiseException (raises).
SetSwitchState(dev, op, key, state, raises) ==
    /\ switch_commands < MaxSwitchCommands
    /\ switch_commands' = switch_commands + 1
    /\ api_switch_calls' = api_switch_calls + 1
    /\ api_last_switch_call' = <<dev, switch_devices[dev].members, key, state>>
    /\ api_switch_raised' = raises
    /\ switch_last_command' =
          [entity |-> dev, op |-> op, outcome |-> PlugwiseCommand(raises)]
    /\ switch_failures' = IF raises THEN switch_failures + 1 ELSE switch_failures
    /\ UNCHANGED switch_devices

\* PlugwiseSwitchEntity.async_turn_on
AsyncTurnOn(dev, key, raises) ==
    SetSwitchState(dev, "async_turn_on", key, "on", raises)

\* Faulty variant of AsyncTurnOff: it asks for "on".
AsyncTurnOffSendsOn(dev, key, raises) ==
    SetSwitchState(dev, "async_turn_off", key, "on", raises)

\* Faulty variant of AsyncTurnOff: a failed API call is tried a second time.
AsyncTurnOffRetries(dev, key, raises) ==
    /\ switch_commands < MaxSwitchCommands
    /\ switch_commands' = switch_commands + 1
    /\ api_switch_calls' = api_switch_calls + (IF raises THEN 2 ELSE 1)
    /\ api_last_switch_call' = <<dev, switch_devices[dev].members, key, "off">>
    /\ api_switch_raised' = raises
    /\ switch_last_command' =
          [entity |-> dev, op |-> "async_turn_off",
           outcome |-> PlugwiseCommand(raises)]
    /\ switch_failures' = IF raises THEN switch_failures + 1 ELSE switch_failures
    /\ UNCHANGED switch_devices

\* PlugwiseSwitchEntity.async_turn_off
AsyncTurnOff(dev, key, raises) ==
    SetSwitchState(dev, "async_turn_off", key, "off", raises)

SwitchStep(A) == A /\ UNCHANGED <<lockVars, climateVars>>

SwitchNext ==
    \/ \E data \in SwitchDeviceData : SwitchStep(SwitchCoordinatorUpdate(data))
    \/ \E dev \in SwitchDeviceIds, key \in SWITCHES, raises \in BOOLEAN :
          SwitchStep(AsyncTurnOn(dev, key, raises))
    \/ \E dev \in SwitchDeviceIds, key \in SWITCHES, raises \in BOOLEAN :
          SwitchStep(AsyncTurnOff(dev, key, raises))

(***************************************************************************)
(* PlugwiseClimateEntity                                                   *)
(***************************************************************************)
HVAC_MODE_HEAT == "heat"
HVAC_MODE_COOL == "cool"
HVAC_MODE_AUTO == "auto"
HVAC_MODE_OFF == "off"
CURRENT_HVAC_HEAT == "heating"
CURRENT_HVAC_COOL == "cooling"
CURRENT_HVAC_IDLE == "idle"
SCHEDULE_ON == "SCHEDULE_ON"
SCHEDULE_OFF == "SCHEDULE_OFF"
DEFAULT_MAX_TEMP == 30
DEFAULT_MIN_TEMP == 4

HVAC_MODES_HEAT_ONLY == <<HVAC_MODE_HEAT, HVAC_MODE_AUTO, HVAC_MODE_OFF>>
HVAC_MODES_HEAT_COOL == <<HVAC_MODE_HEAT, HVAC_MODE_COOL, HVAC_MODE_AUTO, HVAC_MODE_OFF>>

\* None where a temperature is expected (temperatures are integers here).
NoTemperature == -1000

\* Python truthiness of an optional number: None and 0 are falsy.
Truthy(x) == x # NoTemperature /\ x # 0

\* x in list
In(x, list) == \E i \in 1..Len(list) : list[i] = x

\* self._dev_id, the gateway's heater_id and self._loc_id
ClimateDevId == "zone1"
HeaterId == "heater"
LocId == "loc1"

\* What a poll can report.  A presets dict is modelled by the list of its keys
\* (<<>>: absent or empty, both falsy); an absent heating_state, cooling_state
\* or cooling_present is falsy like False.
PolledSetpoints == {NoTemperature, 0, 20}
PolledTemperatures == {NoTemperature, 19}
PolledPresets == {<<>>, <<"home", "away">>}
PolledActivePresets == {None, "home"}
PolledModes == {HVAC_MODE_HEAT, HVAC_MODE_COOL, HVAC_MODE_AUTO}
PolledScheduleTemperatures == {21}

ThermostatData ==
    [ sensors : [setpoint : PolledSetpoints, temperature : PolledTemperatures],
      active_preset : PolledActivePresets,
      presets : PolledPresets,
      mode : PolledModes,
      schedule_temperature : PolledScheduleTemperatures,
      last_used : {"weekdays"},
      available_schedules : {<<"weekdays">>},
      selected_schedule : {"weekdays"} ]

HeaterData == [heating_state : BOOLEAN, cooling_state : BOOLEAN]

GatewayData == [heater_id : {HeaterId}, cooling_present : BOOLEAN]

CoordinatorData(thermostat, heater, gateway) ==
    [ gateway |-> gateway,
      devices |-> [d \in {ClimateDevId, HeaterId} |->
                     IF d = ClimateDevId THEN thermostat ELSE heater] ]

\* The data a poll may bring after `data`: one part of it has been read anew
\* (the thermostat's sensors, its presets or its mode, the heater's state, the
\* gateway's), the rest is as it was.  Every combination of the parts is
\* reached by successive polls.
PolledData(data) ==
    {[data EXCEPT !.devices[ClimateDevId].sensors = x] :
        x \in [setpoint : PolledSetpoints, temperature : PolledTemperatures]}
    \cup {[data EXCEPT !.devices[ClimateDevId].presets = x.presets,
                       !.devices[ClimateDevId].active_preset = x.active_preset] :
        x \in [presets : PolledPresets, active_preset : PolledActivePresets]}
    \cup {[data EXCEPT !.devices[ClimateDevId].mode = x] : x \in PolledModes}
    \cup {[data EXCEPT !.devices[HeaterId] = x] : x \in HeaterData}
    \cup {[data EXCEPT !.gateway = x] : x \in GatewayData}

\* The class attributes of PlugwiseClimateEntity, and None for those
\* ClimateEntity declares (preset_modes None is <<>>).
ClassAttributes ==
    [ target_temperature |-> NoTemperature,
      current_temperature |-> NoTemperature,
      preset_mode |-> None,
      preset_modes |-> <<>>,
      hvac_action |-> None,
      hvac_modes |-> HVAC_MODES_HEAT_ONLY,
      hvac_mode |-> HVAC_MODE_HEAT,
      extra_state_attributes |-> <<>> ]

NoApiCall == <<>>

NoClimateCommand ==
    [ op |-> "none", temperature |-> NoTemperature, hvac_mode |-> None,
      outcome |-> "none", calls |-> NoApiCall ]

ClimateInit ==
    /\ coordinator_data =
          CoordinatorData(
            [ sensors |-> [setpoint |-> 20, temperature |-> 19],
              active_preset |-> "home",
              presets |-> <<"home", "away">>,
              mode |-> HVAC_MODE_HEAT,
              schedule_temperature |-> 21,
              last_used |-> "weekdays",
              available_schedules |-> <<"weekdays">>,
              selected_schedule |-> "weekdays" ],
            [heating_state |-> FALSE, cooling_state |-> FALSE],
            [heater_id |-> HeaterId, cooling_present |-> FALSE])
    /\ climate = ClassAttributes
    /\ climate_updated = FALSE
    /\ climate_last_command = NoClimateCommand

\* _handle_coordinator_update, "Current & set temperatures"
TargetTemperature(attrs, data) ==
    LET setpoint == data.devices[ClimateDevId].sensors.setpoint
    IN  IF Truthy(setpoint) THEN setpoint ELSE attrs.target_temperature

CurrentTemperature(attrs, data) ==
    LET temperature == data.devices[ClimateDevId].sensors.temperature
    IN  IF Truthy(temperature) THEN temperature ELSE attrs.current_temperature

\* _handle_coordinator_update, "Presets handling"
PresetMode(attrs, data) ==
    IF data.devices[ClimateDevId].presets # <<>>
    THEN data.devices[ClimateDevId].active_preset
    ELSE None

PresetModes(attrs, data) ==
    IF data.devices[ClimateDevId].presets # <<>>
    THEN data.devices[ClimateDevId].presets
    ELSE attrs.preset_modes

\* Faulty variant of HvacAction: cooling_state is looked at first.
HvacActionCoolingFirst(attrs, data) ==
    LET heater_central_data == data.devices[data.gateway.heater_id]
    IN  IF heater_central_data.cooling_state THEN CURRENT_HVAC_COOL
        ELSE IF heater_central_data.heating_state THEN CURRENT_HVAC_HEAT
        ELSE CURRENT_HVAC_IDLE

\* _handle_coordinator_update, "Determine current hvac action"
HvacAction(attrs, data) ==
    LET heater_central_data == data.devices[data.gateway.heater_id]
    IN  IF heater_central_data.heating_state THEN CURRENT_HVAC_HEAT
        ELSE IF heater_central_data.cooling_state THEN CURRENT_HVAC_COOL
        ELSE CURRENT_HVAC_IDLE

\* Faulty variant of HvacModes: the list is not reset to heat-only first.
HvacModesNotReset(attrs, data) ==
    IF data.gateway.cooling_present THEN HVAC_MODES_HEAT_COOL ELSE attrs.hvac_modes

\* _handle_coordinator_update, "Determine hvac modes and current hvac mode"
HvacModes(attrs, data) ==
    IF data.gateway.cooling_present THEN HVAC_MODES_HEAT_COOL ELSE HVAC_MODES_HEAT_ONLY

HvacMode(attrs, data) ==
    IF In(data.devices[ClimateDevId].mode, HvacModes(attrs, data))
    THEN data.devices[ClimateDevId].mode
    ELSE attrs.hvac_mode

\* _handle_coordinator_update, "Extra attributes"
ExtraStateAttributes(attrs, data) ==
    << data.devices[ClimateDevId].available_schedules,
       data.devices[ClimateDevId].selected_schedule >>

\* PlugwiseClimateEntity._handle_coordinator_update: the entity's attributes
\* after it has handled `data`, having had `attrs` before.
HandleCoordinatorUpdate(attrs, data) ==
    [ target_temperature |-> TargetTemperature(attrs, data),
      current_temperature |-> CurrentTemperature(attrs, data),
      preset_mode |-> PresetMode(attrs, data),
      preset_modes |-> PresetModes(attrs, data),
      hvac_action |-> HvacAction(attrs, data),
      hvac_modes |-> HvacModes(attrs, data),
      hvac_mode |-> HvacMode(attrs, data),
      extra_state_attributes |-> ExtraStateAttributes(attrs, data) ]

\* The coordinator has polled the gateway: it stores the data and calls its
\* listeners, here the entity's _handle_coordinator_update.
CoordinatorUpdate(data) ==
    /\ coordinator_data' = data
    /\ climate' = HandleCoordinatorUpdate(climate, data)
    /\ climate_updated' = TRUE
    /\ climate_last_command' = NoClimateCommand

\* One call of the gateway API made by a command; `raised`: it raised
\* PlugwiseException.
SetTemperatureCall(loc, temperature, raised) ==
    [ api |-> "set_temperature", loc |-> loc, temperature |-> temperature,
      name |-> None, state |-> None, raised |-> raised ]

SetScheduleStateCall(loc, name, state, raised) ==
    [ api |-> "set_schedule_state", loc |-> loc, temperature |-> NoTemperature,
      name |-> name, state |-> state, raised |-> raised ]

\* A command has run: what it was given, how it ended and the API calls it made.
CommandDone(op, temperature, hvac_mode, outcome, calls) ==
    /\ climate_last_command' =
          [ op |-> op, temperature |-> temperature, hvac_mode |-> hvac_mode,
            outcome |-> outcome, calls |-> calls ]
    /\ UNCHANGED <<coordinator_data, climate_updated>>

\* The condition under which async_set_temperature raises ValueError.
InvalidTemperature(temperature) ==
    \/ temperature = NoTemperature
    \/ (DEFAULT_MAX_TEMP < temperature /\ temperature < DEFAULT_MIN_TEMP)

\* PlugwiseClimateEntity.async_set_temperature(temperature=...); raises: the
\* API call, if made, raises PlugwiseException.
AsyncSetTemperature(temperature, raises) ==
    /\ IF InvalidTemperature(temperature)
       THEN CommandDone("async_set_temperature", temperature, None,
                        "ValueError", NoApiCall)
       ELSE CommandDone("async_set_temperature", temperature, None,
                        PlugwiseCommand(raises),
                        <<SetTemperatureCall(LocId, temperature, raises)>>)
    /\ UNCHANGED climate

\* Faulty variant of AsyncSetHvacMode: the schedule state is set even though
\* set_temperature raised.
AsyncSetHvacModeIgnoresFailure(hvac_mode, raises) ==
    LET climate_data == coordinator_data.devices[ClimateDevId]
        state == IF hvac_mode = HVAC_MODE_AUTO THEN SCHEDULE_ON ELSE SCHEDULE_OFF
    IN  IF hvac_mode = HVAC_MODE_AUTO
        THEN /\ CommandDone("async_set_hvac_mode", NoTemperature, hvac_mode,
                            PlugwiseCommand(raises > 0),
                            << SetTemperatureCall(
                                 LocId, climate_data.schedule_temperature,
                                 raises = 1),
                               SetScheduleStateCall(
                                 LocId, climate_data.last_used, state,
                                 raises = 2) >>)
             /\ climate' = [climate EXCEPT !.target_temperature =
                                             climate_data.schedule_temperature]
        ELSE /\ CommandDone("async_set_hvac_mode", NoTemperature, hvac_mode,
                            PlugwiseCommand(raises = 2),
                            << SetScheduleStateCall(
                                 LocId, climate_data.last_used, state,
                                 raises = 2) >>)
             /\ UNCHANGED climate

\* PlugwiseClimateEntity.async_set_hvac_mode(hvac_mode); raises: 0 if no API
\* call raises, else which of the (up to two) API calls raises PlugwiseException.
AsyncSetHvacMode(hvac_mode, raises) ==
    LET climate_data == coordinator_data.devices[ClimateDevId]
        state == IF hvac_mode = HVAC_MODE_AUTO THEN SCHEDULE_ON ELSE SCHEDULE_OFF
    IN  IF hvac_mode = HVAC_MODE_AUTO
        THEN IF raises = 1
             THEN /\ CommandDone("async_set_hvac_mode", NoTemperature, hvac_mode,
                                 PlugwiseCommand(TRUE),
                                 << SetTemperatureCall(
                                      LocId, climate_data.schedule_temperature,
                                      TRUE) >>)
                  /\ UNCHANGED climate
             ELSE /\ CommandDone("async_set_hvac_mode", NoTemperature, hvac_mode,
                                 PlugwiseCommand(raises = 2),
                                 << SetTemperatureCall(
                                      LocId, climate_data.schedule_temperature,
                                      FALSE),
                                    SetScheduleStateCall(
                                      LocId, climate_data.last_used, state,
                                      raises = 2) >>)
                  /\ climate' = [climate EXCEPT !.target_temperature =
                                                  climate_data.schedule_temperature]
        ELSE /\ raises # 1
             /\ CommandDone("async_set_hvac_mode", NoTemperature, hvac_mode,
                            PlugwiseCommand(raises = 2),
                            << SetScheduleStateCall(
                                 LocId, climate_data.last_used, state,
                                 raises = 2) >>)
             /\ UNCHANGED climate

\* Temperatures a caller may ask for: none, below the minimum, in range, above
\* the maximum.
RequestedTemperatures == {NoTemperature, 3, 20, 35}

\* hvac modes a caller may ask for
RequestedHvacModes == {HVAC_MODE_HEAT, HVAC_MODE_AUTO, HVAC_MODE_OFF}

Init == LockInit /\ SwitchInit /\ ClimateInit

ClimateStep(A) == A /\ UNCHANGED <<lockVars, switchVars>>

ClimateNext ==
    \/ \E data \in PolledData(coordinator_data) : ClimateStep(CoordinatorUpdate(data))
    \/ \E temperature \in RequestedTemperatures, raises \in BOOLEAN :
          ClimateStep(AsyncSetTemperature(temperature, raises))
    \/ \E hvac_mode \in RequestedHvacModes, raises \in 0..2 :
          ClimateStep(AsyncSetHvacMode(hvac_mode, raises))

Next == LockNext \/ SwitchNext \/ ClimateNext

Spec == Init /\ [][Next]_vars

SpecLock == Init /\ [][LockNext]_vars

SpecSwitch == Init /\ [][SwitchNext]_vars

SpecClimate == Init /\ [][ClimateNext]_vars

(***************************************************************************)
(* Properties of MqttLock                                                  *)
(***************************************************************************)
LockPrepared == lock_pc \in {"prepared", "subscribed"}

\* A step in which the command op was called, whatever its outcome.
CommandCalled(op) ==
    /\ lock_calls' = lock_calls + 1
    /\ lock_last_call'.op = op

\* The config key each command publishes.
CommandPayload(op) ==
    CASE op = "async_lock"   -> _config.payload_lock
      [] op = "async_unlock" -> _config.payload_unlock
      [] op = "async_open"   -> _config.payload_open

\* C1: once _prepare_subscribe_topics has run, a lock without a state topic
\* is in optimistic mode (assumed_state is True) whatever 'optimistic' was
\* configured, and no state-topic subscription has been prepared; a lock with
\* a state topic has assumed_state equal to the configured 'optimistic'.
C1_AssumedStateAfterPrepare ==
    LockPrepared =>
        IF _config.state_topic = None
        THEN assumed_state = TRUE /\ sub_prepared = FALSE /\ _sub_state = None
        ELSE assumed_state = _config.optimistic

C1_Witness ==
    /\ lock_pc = "prepared"
    /\ _config.state_topic = None
    /\ _config.optimistic = FALSE
    /\ assumed_state = TRUE

OptimisticNoStateTopic ==
    LockPrepared /\ _optimistic /\ _config.state_topic = None

\* C2: in optimistic mode with no state topic, is_locked is True exactly when
\* the most recent successfully completed command was async_lock (False before
\* any command, and after async_unlock or async_open), and every successfully
\* completed command writes the entity state exactly once, after updating it.
C2_OptimisticBookkeeping ==
    /\ [](OptimisticNoStateTopic => (is_locked <=> lock_last_ok = "async_lock"))
    /\ [][ (/\ OptimisticNoStateTopic
            /\ lock_calls' = lock_calls + 1
            /\ lock_last_call'.op \in LockCommands
            /\ lock_last_call'.outcome = "ok")
           => /\ ha_state_writes' = ha_state_writes + 1
              /\ ha_written_state' = WrittenState(is_locked') ]_vars

C2_Witness ==
    /\ OptimisticNoStateTopic
    /\ lock_calls = 3
    /\ lock_last_call = [op |-> "async_lock", outcome |-> "ok"]
    /\ ha_state_writes = 3
    /\ ha_written_state = "locked"
    /\ is_locked

\* The state the messages of a log leave: that of the last payload that
\* renders to state_locked or state_unlocked, False if there is none.
RECURSIVE LastRecognised(_, _)
LastRecognised(config, log) ==
    IF log = <<>> THEN FALSE
    ELSE LET payload == ValueTemplate(config.value_template, log[Len(log)])
         IN  IF payload = config.state_locked THEN TRUE
             ELSE IF payload = config.state_unlocked THEN FALSE
             ELSE LastRecognised(config, SubSeq(log, 1, Len(log) - 1))

\* C3: a message whose templated payload is state_locked makes is_locked True,
\* one whose templated payload is state_unlocked makes it False, any other
\* leaves it as it was; so as long as only messages have changed the state,
\* is_locked is that of the last recognised payload (False if none).
C3_InboundState ==
    /\ [][ Len(msg_log') = Len(msg_log) + 1
           => LET payload == ValueTemplate(_config.value_template,
                                           msg_log'[Len(msg_log')])
              IN  is_locked' = IF payload = _config.state_locked THEN TRUE
                               ELSE IF payload = _config.state_unlocked THEN FALSE
                               ELSE is_locked ]_vars
    /\ [](lock_last_ok = "none" /\ lock_pc # "new"
            => is_locked = LastRecognised(_config, msg_log))

C3_Witness ==
    /\ Len(msg_log) = 3
    /\ _config.value_template # None
    /\ msg_log[1] = "OFF"
    /\ msg_log[2] = "ON"
    /\ msg_log[3] = "UNLOCKED"
    /\ is_locked

\* C4 as stated: every call of async_lock, async_unlock or async_open makes
\* exactly one publish to the command topic with its configured payload, and
\* a call whose publish fails leaves is_locked unchanged and writes no state.
C4_EveryCommandPublishes ==
    [][ \A op \in LockCommands :
          CommandCalled(op)
          => /\ mqtt_publish_calls' = mqtt_publish_calls + 1
             /\ mqtt_last_publish' = <<_config.command_topic, CommandPayload(op)>>
             /\ (lock_last_call'.outcome # "ok"
                   => is_locked' = is_locked /\ ha_state_writes' = ha_state_writes)
      ]_vars

\* C4, amended: async_lock, async_unlock, and async_open on a lock configured
\* with payload_open make exactly one publish to the command topic with their
\* configured payload, in optimistic and non-optimistic mode alike, and a call
\* whose publish fails leaves is_locked unchanged and writes no state;
\* async_open on a lock without payload_open raises KeyError before publishing:
\* nothing is published, is_locked is unchanged and no state is written.
C4_ConfiguredCommandPublishes ==
    [][ \A op \in LockCommands :
          CommandCalled(op)
          => IF CommandPayload(op) = None
             THEN /\ op = "async_open"
                  /\ lock_last_call'.outcome = "KeyError"
                  /\ mqtt_publish_calls' = mqtt_publish_calls
                  /\ mqtt_last_publish' = mqtt_last_publish
                  /\ is_locked' = is_locked
                  /\ ha_state_writes' = ha_state_writes
             ELSE /\ mqtt_publish_calls' = mqtt_publish_calls + 1
                  /\ mqtt_last_publish' =
                        <<_config.command_topic, CommandPayload(op)>>
                  /\ (lock_last_call'.outcome # "ok"
                        => /\ is_locked' = is_locked
                           /\ ha_state_writes' = ha_state_writes)
      ]_vars

\* async_open without payload_open, a published async_lock, then an
\* async_unlock whose publish failed: two publishes, still locked.
C4_Witness ==
    /\ lock_calls = 3
    /\ _config.payload_open = None
    /\ _optimistic
    /\ mqtt_publish_calls = 2
    /\ mqtt_last_publish = <<_config.command_topic, _config.payload_unlock>>
    /\ lock_last_call = [op |-> "async_unlock", outcome |-> "publish_failed"]
    /\ is_locked
    /\ ha_state_writes = 1

NonOptimistic ==
    LockPrepared /\ ~_optimistic /\ _config.state_topic # None

\* C11: in non-optimistic mode (a state topic is configured and 'optimistic'
\* is false) async_lock, async_unlock and async_open, whatever their outcome,
\* leave is_locked unchanged and write no entity state; is_locked changes only
\* in message_received; so in any interleaving of commands and state messages
\* is_locked is the value the last recognised state message set (False while
\* none has been recognised).
C11_NonOptimisticFrame ==
    /\ [][ NonOptimistic /\ (\E op \in LockCommands : CommandCalled(op))
           => /\ is_locked' = is_locked
              /\ ha_state_writes' = ha_state_writes
              /\ ha_written_state' = ha_written_state ]_vars
    /\ [][ NonOptimistic /\ is_locked' # is_locked
           => /\ Len(msg_log') = Len(msg_log) + 1
              /\ lock_last_call'.op = "message_received" ]_vars
    /\ [](NonOptimistic => is_locked = LastRecognised(_config, msg_log))

\* A "LOCKED" message, then a published async_unlock and a published
\* async_open: still locked, and only the message wrote the state.
C11_Witness ==
    /\ NonOptimistic
    /\ msg_log = <<"LOCKED">>
    /\ lock_calls = 3
    /\ mqtt_publish_calls = 2
    /\ lock_last_call = [op |-> "async_open", outcome |-> "ok"]
    /\ is_locked
    /\ ha_state_writes = 1
    /\ ha_written_state = "locked"

(***************************************************************************)
(* Properties of PlugwiseSwitchEntity                                      *)
(***************************************************************************)
\* A step in which a switch command was given.
SwitchCommandGiven == switch_commands' = switch_commands + 1

\* C5: every async_turn_on makes exactly one api.set_switch_state call with
\* (the entity's device id, the device's members or None, "relay", "on"), every
\* async_turn_off exactly one with "off"; so after n commands the API has been
\* called n times and its last arguments are those of the last command.
C5_OneApiCallPerCommand ==
    /\ [](api_switch_calls = switch_commands)
    /\ [][ SwitchCommandGiven
           => LET cmd == switch_last_command'
              IN  /\ api_switch_calls' = api_switch_calls + 1
                  /\ cmd.op \in {"async_turn_on", "async_turn_off"}
                  /\ api_last_switch_call' =
                        << cmd.entity,
                           switch_devices[cmd.entity].members,
                           "relay",
                           IF cmd.op = "async_turn_on" THEN "on" ELSE "off" >>
         ]_vars

C5_Witness ==
    /\ switch_commands = 3
    /\ api_switch_calls = 3
    /\ switch_last_command.op = "async_turn_off"
    /\ api_last_switch_call = <<"dev2", "plug1,plug2", "relay", "off">>

\* C6: a command whose api.set_switch_state call raises PlugwiseException
\* fails with HomeAssistantError after exactly one API call (no retry), and a
\* command given after a failed one again makes exactly one API call.
C6_FailedCommandCallsOnce ==
    [][ SwitchCommandGiven
        => /\ api_switch_calls' = api_switch_calls + 1
           /\ (api_switch_raised' <=>
                 switch_last_command'.outcome = "HomeAssistantError")
           /\ (switch_last_command'.outcome = "HomeAssistantError"
                 => switch_failures' = switch_failures + 1)
      ]_vars

\* A command failed, and a later one on the same entity went through.
C6_Witness ==
    /\ switch_failures = 1
    /\ switch_commands = 2
    /\ api_switch_calls = 2
    /\ switch_last_command =
          [entity |-> "dev1", op |-> "async_turn_on", outcome |-> "ok"]
    /\ ~api_switch_raised

(***************************************************************************)
(* Properties of PlugwiseClimateEntity                                     *)
(***************************************************************************)
\* A step in which the entity handled a coordinator update.
ClimateUpdateStep == climate_updated' /\ climate_last_command' = NoClimateCommand

\* The attributes C7 names.
DerivedAttributes ==
    { "hvac_mode", "hvac_action", "hvac_modes", "target_temperature",
      "current_temperature", "preset_mode", "preset_modes" }

\* What an entity that has its class attributes still (one created just
\* before the update) derives from the data.
FreshEntity(data) == HandleCoordinatorUpdate(ClassAttributes, data)

\* C7 as stated: the attributes an entity has after handling an update are
\* those any other entity, whatever it held before, has after handling the
\* same data; the other entity here is one that still has its class attributes.
C7_StatelessDerivation ==
    [][ ClimateUpdateStep
        => \A a \in DerivedAttributes :
             climate'[a] = FreshEntity(coordinator_data')[a] ]_vars

\* C7, amended: hvac_action, hvac_modes and preset_mode after an update depend
\* on the polled data alone.  target_temperature, current_temperature,
\* preset_modes and hvac_mode depend on the polled data alone when the polled
\* setpoint is truthy, the polled temperature is truthy, the polled presets are
\* non-empty, resp. the polled mode is in the new hvac_modes; otherwise each
\* keeps the value the entity held before the update.
C7_DerivationKeepsMissingValues ==
    [][ ClimateUpdateStep
        => LET fresh == FreshEntity(coordinator_data')
               thermostat == coordinator_data'.devices[ClimateDevId]
           IN  /\ climate'.hvac_action = fresh.hvac_action
               /\ climate'.hvac_modes = fresh.hvac_modes
               /\ climate'.preset_mode = fresh.preset_mode
               /\ climate'.target_temperature =
                     IF Truthy(thermostat.sensors.setpoint)
                     THEN fresh.target_temperature
                     ELSE climate.target_temperature
               /\ climate'.current_temperature =
                     IF Truthy(thermostat.sensors.temperature)
                     THEN fresh.current_temperature
                     ELSE climate.current_temperature
               /\ climate'.preset_modes =
                     IF thermostat.presets # <<>>
                     THEN fresh.preset_modes
                     ELSE climate.preset_modes
               /\ climate'.hvac_mode =
                     IF In(thermostat.mode, climate'.hvac_modes)
                     THEN fresh.hvac_mode
                     ELSE climate.hvac_mode ]_vars

\* The entity has handled data without a usable setpoint, without presets and
\* with a mode it does not support, and shows what it held before.
C7_Witness ==
    /\ climate_updated
    /\ climate_last_command = NoClimateCommand
    /\ coordinator_data.devices[ClimateDevId].sensors.setpoint = 0
    /\ coordinator_data.devices[ClimateDevId].presets = <<>>
    /\ coordinator_data.devices[ClimateDevId].mode = HVAC_MODE_COOL
    /\ ~coordinator_data.gateway.cooling_present
    /\ climate.target_temperature = 20
    /\ climate.preset_modes = <<"home", "away">>
    /\ climate.hvac_mode = HVAC_MODE_AUTO

\* C8: once an update has been handled, hvac_action is "heating" if the
\* heater's heating_state is set, else "cooling" if its cooling_state is set,
\* else "idle", whatever hvac_action was before.
C8_HvacAction ==
    climate_updated =>
        LET heater == coordinator_data.devices[coordinator_data.gateway.heater_id]
        IN  climate.hvac_action =
              IF heater.heating_state THEN "heating"
              ELSE IF heater.cooling_state THEN "cooling"
              ELSE "idle"

C8_Witness ==
    /\ climate_updated
    /\ coordinator_data.devices[HeaterId].heating_state
    /\ coordinator_data.devices[HeaterId].cooling_state
    /\ climate.hvac_action = "heating"

\* C9: async_set_temperature raises ValueError and calls no API when no
\* temperature is given or the temperature is below min_temp or above
\* max_temp; otherwise it calls api.set_temperature once, with the entity's
\* location id and the temperature.
C9_SetTemperatureValidates ==
    climate_last_command.op = "async_set_temperature" =>
        LET cmd == climate_last_command
        IN  IF \/ cmd.temperature = NoTemperature
               \/ cmd.temperature < DEFAULT_MIN_TEMP
               \/ cmd.temperature > DEFAULT_MAX_TEMP
            THEN cmd.outcome = "ValueError" /\ cmd.calls = <<>>
            ELSE /\ Len(cmd.calls) = 1
                 /\ cmd.calls[1].api = "set_temperature"
                 /\ cmd.calls[1].loc = LocId
                 /\ cmd.calls[1].temperature = cmd.temperature

\* C10: async_set_hvac_mode("auto") calls api.set_temperature(location,
\* schedule_temperature) first; if that raises, nothing else is called;
\* otherwise target_temperature becomes schedule_temperature and
\* api.set_schedule_state(location, last_used, on) is called.  With any other
\* mode the only call is api.set_schedule_state(location, last_used, off) and
\* target_temperature is unchanged.
C10_SetHvacModeCalls ==
    [][ climate_last_command'.op = "async_set_hvac_mode"
        => LET cmd == climate_last_command'
               calls == cmd.calls
               thermostat == coordinator_data.devices[ClimateDevId]
           IN  IF cmd.hvac_mode = "auto"
               THEN /\ Len(calls) >= 1
                    /\ calls[1].api = "set_temperature"
                    /\ calls[1].loc = LocId
                    /\ calls[1].temperature = thermostat.schedule_temperature
                    /\ IF calls[1].raised
                       THEN Len(calls) = 1
                       ELSE /\ climate'.target_temperature =
                                 thermostat.schedule_temperature
                            /\ Len(calls) = 2
                            /\ calls[2].api = "set_schedule_state"
                            /\ calls[2].loc = LocId
                            /\ calls[2].name = thermostat.last_used
                            /\ calls[2].state = SCHEDULE_ON
               ELSE /\ Len(calls) = 1
                    /\ calls[1].api = "set_schedule_state"
                    /\ calls[1].loc = LocId
                    /\ calls[1].name = thermostat.last_used
                    /\ calls[1].state = SCHEDULE_OFF
                    /\ climate'.target_temperature = climate.target_temperature
      ]_vars

C10_Witness ==
    /\ climate_last_command.op = "async_set_hvac_mode"
    /\ climate_last_command.hvac_mode = "auto"
    /\ climate_last_command.outcome = "ok"
    /\ Len(climate_last_command.calls) = 2
    /\ coordinator_data.devices[ClimateDevId].sensors.setpoint = 20
    /\ climate_updated
    /\ climate.target_temperature = 21

\* C12: once an update has been handled, hvac_modes is [heat, cool, auto, off]
\* if the gateway's cooling_present is truthy and [heat, auto, off] otherwise,
\* and hvac_mode is a member of hvac_modes.
C12_HvacModeInHvacModes ==
    climate_updated =>
        /\ climate.hvac_modes =
              IF coordinator_data.gateway.cooling_present
              THEN HVAC_MODES_HEAT_COOL
              ELSE HVAC_MODES_HEAT_ONLY
        /\ In(climate.hvac_mode, climate.hvac_modes)

====
